---- MODULE Spec2Model ----
(***************************************************************************)
(* Engineering metrics collector (getvictor/eng-metrics).                  *)
(*                                                                         *)
(* Five parts of the program, each with its own variables, initial         *)
(* predicate and specification; a specification holds the other parts at   *)
(* rest.                                                                   *)
(*   Spec, SpecAnyInput   GitHubClient.calculatePickupTime                 *)
(*   SpecFetch            GitHubClient.fetchPullRequests,                  *)
(*                        fetchPRReviewEvents, fetchPRTimelineEvents       *)
(*   SpecCollect          MetricsCollector.run                             *)
(*   SpecUpload,          BigQueryClient.uploadMetrics, runs overlapping   *)
(*   SpecUploadInTurn     and runs in turn                                 *)
(*   SpecConfig           main and loadConfig                              *)
(***************************************************************************)
EXTENDS Integers, Sequences, FiniteSets, TLC

\* calculatePickupTime and its caller
VARIABLES pr, timelineEvents, reviewEvents, returned, logged

\* one call of a fetch method of GitHubClient: the method, the listing the
\* API holds, the locals page and pullRequests / timelineEvents, where the
\* call stands, Date.now(), the error caught or thrown, the failed requests
VARIABLES method, apiData, page, fetched, fetchPc, now, fetchErr, failures

\* one run of MetricsCollector: the configuration it was built with, where
\* run() stands, this.bigqueryClient, the loop over the repositories, the
\* locals of collectRepositoryMetrics, the aggregate, how the last loop pass
\* over a PR ended, what reached the console and the warehouse, and what
\* logger.error was called with
VARIABLES printOnly, repositories, runPc, bigqueryClient, repoIdx,
          pullRequests, prIdx, metrics, allMetrics, lastOutcome,
          printed, uploaded, warehouseCalls, errorLog

\* BigQueryClient.uploadMetrics against one destination table: the rows
\* stored, whether the table exists, and for each run that calls it where
\* the call stands, its batch, the rows it hands to insert, the PR numbers
\* stored when its existence check ran, and whether that query failed
VARIABLES table, tableExists, upPc, batch, pendingRows, storedAtCheck,
          queryFailed

\* the entry point main: which copy of the program runs, the command line
\* arguments, the environment, the object in the file config.json, where
\* main stands, what loadConfig returned, and the configuration handed on
VARIABLES snapshot, args, env, fileConfig, mainPc, loaded, config

calcVars == <<pr, timelineEvents, reviewEvents, returned, logged>>

configVars == <<snapshot, args, env, fileConfig, mainPc, loaded, config>>

uploadVars ==
  <<table, tableExists, upPc, batch, pendingRows, storedAtCheck, queryFailed>>

collectVars ==
  <<printOnly, repositories, runPc, bigqueryClient, repoIdx, pullRequests,
    prIdx, metrics, allMetrics, lastOutcome, printed, uploaded,
    warehouseCalls, errorLog>>

fetchVars ==
  <<method, apiData, page, fetched, fetchPc, now, fetchErr, failures>>

vars == <<calcVars, fetchVars, collectVars, uploadVars, configVars>>

----------------------------------------------------------------------------
(* Bounds of the explored inputs *)

MaxTimeline == 2
MaxReviews == 2
MaxCalls == 2

\* the page size of the listings (per_page: 100 in the requests), the
\* longest listing and the most requests the API fails in one call
PerPage == 2
MaxListed == 4
MaxFailures == 2

\* the most pull requests a repository lists
MaxPRs == 2

\* the most records in a batch handed to the upload
MaxBatch == 2

----------------------------------------------------------------------------
(* Timestamps.  GitHub delivers ISO-8601 strings; `new Date(s)` turns one  *)
(* into milliseconds since 1970-01-01T00:00:00Z.  A string               *)
(* "1970-01-DDThh:mm:ss.sssZ" is the record [date |-> DD, ms |-> ms of    *)
(* that day].                                                              *)

MsPerSecond == 1000

MsPerDay == 24 * 60 * 60 * MsPerSecond

\* 1970-01-02 is a Friday, 1970-01-05 the Monday after it: two instants half
\* a second apart and one three days later.
Timestamps ==
  { [date |-> 2, ms |-> 0], [date |-> 2, ms |-> 500], [date |-> 5, ms |-> 0] }

\* new Date(isoString), as epoch milliseconds
DateParse(ts) == (ts.date - 1) * MsPerDay + ts.ms

\* date.toISOString().split('T')[0], as the day of January 1970
ISODate(t) == (t \div MsPerDay) + 1

PRNumbers == {123}

PullRequests == [number : PRNumbers, draft : BOOLEAN, created_at : Timestamps]

EventKinds == {"ready_for_review", "convert_to_draft"}

TimelineEvent == [event : EventKinds, created_at : Timestamps]

ReviewEvent == [submitted_at : Timestamps]

SeqsUpTo(S, n) == UNION {[1..k -> S] : k \in 0..n}

----------------------------------------------------------------------------
(* Array.prototype.sort with a comparator (a, b) => key of a - key of b:    *)
(* ascending and stable (ECMAScript 2019, Node 20).                        *)

\* the indexes of keys in the order the sort leaves them
SortOrder(keys) ==
  LET n == Len(keys)
      rank(i) == 1 + Cardinality({j \in 1..n :
                        \/ keys[j] < keys[i]
                        \/ (keys[j] = keys[i] /\ j < i)})
  IN  [p \in 1..n |-> CHOOSE i \in 1..n : rank(i) = p]

\* seq sorted by the numeric keys of its elements
StableSort(seq, keys) ==
  LET order == SortOrder(keys)
  IN  [p \in 1..Len(seq) |-> seq[order[p]]]

----------------------------------------------------------------------------
(* calculatePickupTime, piece by piece *)

Null == [kind |-> "null"]

IsReadyForReview(event) == event.event = "ready_for_review"

\* line 230: the comparator's keys, a.time
ReadyTimes(readyEvents) ==
  [i \in 1..Len(readyEvents) |-> readyEvents[i].time]

\* line 246: the comparator's keys, new Date(a.submitted_at)
SubmittedAts(reviews) ==
  [i \in 1..Len(reviews) |-> DateParse(reviews[i].submitted_at)]

\* Variant: the creation time is pushed whatever the draft flag says.
readyForReviewEvents_IgnoringDraft(p, timeline) ==
  LET filtered == SelectSeq(timeline, IsReadyForReview)
      mapped == [i \in 1..Len(filtered) |->
                   [time |-> DateParse(filtered[i].created_at),
                    event |-> filtered[i].event]]
      pushed == Append(mapped, [time |-> DateParse(p.created_at),
                                event |-> "created_not_draft"])
  IN  StableSort(pushed, ReadyTimes(pushed))

\* lines 214-230: the sorted readiness candidates
readyForReviewEvents(p, timeline) ==
  LET filtered == SelectSeq(timeline, IsReadyForReview)
      mapped == [i \in 1..Len(filtered) |->
                   [time |-> DateParse(filtered[i].created_at),
                    event |-> filtered[i].event]]
      pushed == IF ~p.draft
                  THEN Append(mapped, [time |-> DateParse(p.created_at),
                                       event |-> "created_not_draft"])
                  ELSE mapped
  IN  StableSort(pushed, ReadyTimes(pushed))

\* Variant: the reviews are taken in list order, the sort is lost.
sortedReviewEvents_Unsorted(reviews) == reviews

\* lines 245-247
sortedReviewEvents(reviews) == StableSort(reviews, SubmittedAts(reviews))

\* Variant: no candidate is filtered out.
readyBeforeFirstReview_Unfiltered(ready, firstReviewTime) == ready

\* lines 253-254: the candidates that pass the filter, in sorted order
readyBeforeFirstReview(ready, firstReviewTime) ==
  SelectSeq(ready, LAMBDA readyEvent : readyEvent.time < firstReviewTime)

\* Variant: Math.round in place of Math.floor.
pickupTimeSecondsOf_Rounded(firstReviewTime, readyTime) ==
  (firstReviewTime - readyTime + 500) \div MsPerSecond

\* line 266
pickupTimeSecondsOf(firstReviewTime, readyTime) ==
  (firstReviewTime - readyTime) \div MsPerSecond

\* Variant: the tag of the pushed candidate is misspelt in the comparison.
readyEventTypeOf_Misspelt(relevantReadyEvent) ==
  IF relevantReadyEvent.event = "created"
    THEN "PR creation (not draft)"
    ELSE "ready_for_review event"

\* lines 279-281
readyEventTypeOf(relevantReadyEvent) ==
  IF relevantReadyEvent.event = "created_not_draft"
    THEN "PR creation (not draft)"
    ELSE "ready_for_review event"

\* Variant: a PR without reviews is measured up to the latest known instant.
firstReviewOf_OpenEnded(reviews) ==
  IF Len(reviews) = 0
    THEN <<[submitted_at |-> [date |-> 5, ms |-> 500]]>>
    ELSE <<sortedReviewEvents(reviews)[1]>>

\* lines 239-249: the first review of the sorted copy, <<>> when the list is
\* empty (the early return of line 241)
firstReviewOf(reviews) ==
  IF Len(reviews) = 0 THEN <<>> ELSE <<sortedReviewEvents(reviews)[1]>>

\* line 250
firstReviewTimeOf(firstReview) == DateParse(firstReview.submitted_at)

\* Variant: .shift() in place of .pop().
relevantReadyEventOf_Shift(before) ==
  IF Len(before) = 0 THEN <<>> ELSE <<before[1]>>

\* line 255: .pop() of the filtered candidates, <<>> standing for undefined
relevantReadyEventOf(before) ==
  IF Len(before) = 0 THEN <<>> ELSE <<before[Len(before)]>>

\* lines 212-303: the try block when no property read raises, as the value
\* returned and the logger call that goes with it
tryBlock(p, timeline, reviews) ==
  LET ready == readyForReviewEvents(p, timeline)
      firstReview == firstReviewOf(reviews)
  IN
  IF Len(ready) = 0
    THEN [ret |-> Null, log |-> "warn: No ready_for_review events found"]
  ELSE IF Len(firstReview) = 0
    THEN [ret |-> Null, log |-> "warn: No review events found"]
  ELSE
    LET firstReviewTime == firstReviewTimeOf(firstReview[1])
        relevant == relevantReadyEventOf(
                      readyBeforeFirstReview(ready, firstReviewTime))
    IN
    IF Len(relevant) = 0
      THEN [ret |-> Null,
            log |-> "warn: No ready_for_review event found before first review"]
    ELSE
      LET relevantReadyEvent == relevant[1]
          readyTime == relevantReadyEvent.time
          pickupTimeSeconds == pickupTimeSecondsOf(firstReviewTime, readyTime)
      IN
      IF pickupTimeSeconds < 0
        THEN [ret |-> Null, log |-> "warn: Negative pickup time"]
        ELSE [ret |-> [kind |-> "metrics",
                       prNumber |-> p.number,
                       readyTime |-> readyTime,
                       firstReviewTime |-> firstReviewTime,
                       reviewDate |-> ISODate(firstReviewTime),
                       pickupTimeSeconds |-> pickupTimeSeconds,
                       readyEventType |-> readyEventTypeOf(relevantReadyEvent)],
              log |-> "info: Calculated pickup time"]

\* A raised exception that leaves the method, and the absent values of JS
Thrown == [kind |-> "thrown"]

\* Arguments that are not well formed: a null PR reference, a null entry in
\* the timeline array
AnyPullRequest == PullRequests \cup {Null}
AnyTimelineEvent == TimelineEvent \cup {Null}

\* lines 214-222: the property reads of the try block that raise TypeError,
\* event.event of a null entry (line 215) and pr.draft of a null PR (line 222)
tryBlockThrows(p, timeline) ==
  \/ \E i \in 1..Len(timeline) : timeline[i] = Null
  \/ p = Null

\* Variant: a handler that logs and rethrows.
catchBlock_Rethrow(p) ==
  [ret |-> Thrown, log |-> "error: Error calculating pickup time"]

\* lines 304-307: the handler reads pr.html_url to build its message, which
\* raises again outside any try when the PR is null; otherwise it logs the
\* error and returns null
catchBlock(p) ==
  IF p = Null
    THEN [ret |-> Thrown, log |-> "none"]
    ELSE [ret |-> Null, log |-> "error: Error calculating pickup time"]

\* lines 211-308: the whole method
calculatePickupTime(p, timeline, reviews) ==
  IF tryBlockThrows(p, timeline)
    THEN catchBlock(p)
    ELSE tryBlock(p, timeline, reviews)

\* The caller's arrays once the call has returned: filter() builds a new
\* array and sort() is applied to that one (lines 214-230) ...
timelineEventsAfterCall(timeline) == timeline

\* Variant: reviewEvents.sort(...) without the spread copy.
reviewEventsAfterCall_InPlace(reviews) ==
  StableSort(reviews, SubmittedAts(reviews))

\* ... and the reviews are sorted in a spread copy (line 245).
reviewEventsAfterCall(reviews) == reviews

----------------------------------------------------------------------------
(* The parts of the program that a specification leaves at rest *)

\* no error caught
NoError ==
  [status |-> 0, remaining |-> "none",
   reset |-> [present |-> FALSE, seconds |-> 0]]

CalcIdle ==
  /\ pr = Null
  /\ timelineEvents = <<>>
  /\ reviewEvents = <<>>
  /\ returned = <<>>
  /\ logged = <<>>

FetchIdle ==
  /\ method = "none"
  /\ apiData = <<>>
  /\ page = 1
  /\ fetched = <<>>
  /\ fetchPc = "idle"
  /\ now = 0
  /\ fetchErr = NoError
  /\ failures = 0

CollectIdle ==
  /\ printOnly = FALSE
  /\ repositories = <<>>
  /\ runPc = "idle"
  /\ bigqueryClient = FALSE
  /\ repoIdx = 1
  /\ pullRequests = <<>>
  /\ prIdx = 1
  /\ metrics = <<>>
  /\ allMetrics = <<>>
  /\ lastOutcome = "none"
  /\ printed = <<>>
  /\ uploaded = <<>>
  /\ warehouseCalls = <<>>
  /\ errorLog = {}

\* the runs that share the destination table
Runs == {"run 1", "run 2"}

UploadIdle ==
  /\ table = <<>>
  /\ tableExists = FALSE
  /\ upPc = [r \in Runs |-> "idle"]
  /\ batch = [r \in Runs |-> <<>>]
  /\ pendingRows = [r \in Runs |-> <<>>]
  /\ storedAtCheck = [r \in Runs |-> {}]
  /\ queryFailed = [r \in Runs |-> FALSE]

\* A property of a JS object: not an own key, a key holding undefined, or
\* a key holding a value (blank is the empty value of the key's type)
Absent(blank) == [key |-> "absent", val |-> blank]
Undefined(blank) == [key |-> "undefined", val |-> blank]
Value(v) == [key |-> "value", val |-> v]

\* {}
EmptyObject ==
  [repositories |-> Absent(<<>>), githubToken |-> Absent(""),
   bigQueryProjectId |-> Absent(""), serviceAccountKeyPath |-> Absent(""),
   targetBranch |-> Absent(""), printOnly |-> Absent(FALSE)]

\* an environment variable that is not set
Unset(blank) == [set |-> FALSE, str |-> blank]

ConfigIdle ==
  /\ snapshot = "none"
  /\ args = <<>>
  /\ env = [REPOSITORIES |-> Unset(<<>>), GITHUB_TOKEN |-> Unset(""),
            BIGQUERY_PROJECT_ID |-> Unset(""),
            SERVICE_ACCOUNT_KEY_PATH |-> Unset(""),
            TARGET_BRANCH |-> Unset(""), PRINT_ONLY |-> Unset("")]
  /\ fileConfig = EmptyObject
  /\ mainPc = "idle"
  /\ loaded = EmptyObject
  /\ config = EmptyObject

\* everything but the named part at rest
OnlyCalc == FetchIdle /\ CollectIdle /\ UploadIdle /\ ConfigIdle
OnlyFetch == CalcIdle /\ CollectIdle /\ UploadIdle /\ ConfigIdle
OnlyCollect == CalcIdle /\ FetchIdle /\ UploadIdle /\ ConfigIdle
OnlyUpload == CalcIdle /\ FetchIdle /\ CollectIdle /\ ConfigIdle
OnlyConfig == CalcIdle /\ FetchIdle /\ CollectIdle /\ UploadIdle

\* the variables of everything but the named part
notCalcVars == <<fetchVars, collectVars, uploadVars, configVars>>
notFetchVars == <<calcVars, collectVars, uploadVars, configVars>>
notCollectVars == <<calcVars, fetchVars, uploadVars, configVars>>
notUploadVars == <<calcVars, fetchVars, collectVars, configVars>>
notConfigVars == <<calcVars, fetchVars, collectVars, uploadVars>>

----------------------------------------------------------------------------
(* The state machine *)

Init ==
  /\ pr \in PullRequests
  /\ timelineEvents \in SeqsUpTo(TimelineEvent, MaxTimeline)
  /\ reviewEvents \in SeqsUpTo(ReviewEvent, MaxReviews)
  /\ returned = <<>>
  /\ logged = <<>>
  /\ OnlyCalc

Calculate ==
  /\ Len(returned) < MaxCalls
  /\ LET out == calculatePickupTime(pr, timelineEvents, reviewEvents)
     IN  /\ returned' = Append(returned, out.ret)
         /\ logged' = Append(logged, out.log)
  /\ timelineEvents' = timelineEventsAfterCall(timelineEvents)
  /\ reviewEvents' = reviewEventsAfterCall(reviewEvents)
  /\ UNCHANGED pr
  /\ UNCHANGED notCalcVars

Next == Calculate

Spec == Init /\ [][Next]_vars

\* The same method called with arguments that need not be well formed
InitAnyInput ==
  /\ pr \in AnyPullRequest
  /\ timelineEvents \in SeqsUpTo(AnyTimelineEvent, MaxTimeline)
  /\ reviewEvents \in SeqsUpTo(ReviewEvent, MaxReviews)
  /\ returned = <<>>
  /\ logged = <<>>
  /\ OnlyCalc

SpecAnyInput == InitAnyInput /\ [][Next]_vars

----------------------------------------------------------------------------
(* Vocabulary of the properties, read off the caller's arguments *)

Returned == {returned[i] : i \in DOMAIN returned}

Records == {r \in Returned : r.kind = "metrics"}

ReadyEventIndexes ==
  {i \in DOMAIN timelineEvents : timelineEvents[i].event = "ready_for_review"}

CreatedAt == DateParse(pr.created_at)

\* the readiness candidates
Candidates ==
  {DateParse(timelineEvents[i].created_at) : i \in ReadyEventIndexes}
    \cup (IF pr.draft THEN {} ELSE {CreatedAt})

ReviewInstants ==
  {DateParse(reviewEvents[i].submitted_at) : i \in DOMAIN reviewEvents}

Earliest(S) == CHOOSE m \in S : \A x \in S : m <= x

Latest(S) == CHOOSE m \in S : \A x \in S : x <= m

FirstReviewInstant == Earliest(ReviewInstants)

CandidatesBeforeFirstReview == {c \in Candidates : c < FirstReviewInstant}

Called == Len(returned) > 0

----------------------------------------------------------------------------
\* C1: the ready instant of every produced record is the latest readiness
\* candidate strictly earlier than the first review; a candidate at or after
\* the first review is never selected, whatever the order of the timeline.
C1_LatestCandidateBeforeFirstReview ==
  \A r \in Records :
    /\ ReviewInstants # {}
    /\ CandidatesBeforeFirstReview # {}
    /\ r.readyTime = Latest(CandidatesBeforeFirstReview)
    /\ r.readyTime < FirstReviewInstant

\* a record from a timeline that is out of order, with two candidates before
\* the first review and one at or after it
C1_Witness ==
  /\ Records # {}
  /\ Cardinality(CandidatesBeforeFirstReview) >= 2
  /\ \E c \in Candidates : c >= FirstReviewInstant
  /\ Len(timelineEvents) = 2
  /\ DateParse(timelineEvents[1].created_at) > DateParse(timelineEvents[2].created_at)

\* C2: for a non-empty review list in any order, the first-review instant of a
\* produced record is the minimum submitted_at over all the reviews.
C2_FirstReviewIsEarliestSubmission ==
  \A r \in Records :
    /\ ReviewInstants # {}
    /\ r.firstReviewTime = Earliest(ReviewInstants)

\* a record from a review list whose earliest review is not the first element
C2_Witness ==
  /\ Records # {}
  /\ Len(reviewEvents) = 2
  /\ DateParse(reviewEvents[1].submitted_at) > DateParse(reviewEvents[2].submitted_at)

\* C3: no record is returned when no readiness candidate is strictly earlier
\* than the first review; a draft PR without ready_for_review event gets none
\* however many reviews it has.
C3_NullWithoutEarlierCandidate ==
  /\ (ReviewInstants # {} /\ CandidatesBeforeFirstReview = {}) => Records = {}
  /\ (pr.draft /\ ReadyEventIndexes = {}) => Records = {}

\* a call for a draft PR without ready event, created before its two reviews
C3_Witness ==
  /\ Called
  /\ pr.draft
  /\ ReadyEventIndexes = {}
  /\ Len(reviewEvents) = 2
  /\ CreatedAt < FirstReviewInstant

\* C4: no record is returned for an empty review list, whatever the draft
\* flag and the ready_for_review events.
C4_NullWithoutReviews ==
  Len(reviewEvents) = 0 => Records = {}

\* a call without reviews for a non-draft PR that has a ready event as well
C4_Witness ==
  /\ Called
  /\ Len(reviewEvents) = 0
  /\ ~pr.draft
  /\ ReadyEventIndexes # {}

\* C5: every produced record has a non-negative pickup time and a ready
\* instant strictly earlier than its first review, and the negative-elapsed
\* branch is never the one that ends a call.
C5_NonNegativeAndStrictlyEarlier ==
  /\ \A r \in Records :
        r.pickupTimeSeconds >= 0 /\ r.readyTime < r.firstReviewTime
  /\ \A i \in DOMAIN logged : logged[i] # "warn: Negative pickup time"

\* a record of zero whole seconds for a PR that has a candidate after its
\* first review
C5_Witness ==
  \E r \in Records :
    /\ r.pickupTimeSeconds = 0
    /\ \E c \in Candidates : c > FirstReviewInstant

UTCDay(t) == ((t \div MsPerDay) + 4) % 7

IsWeekend(t) == UTCDay(t) \in {0, 6}

RECURSIVE WeekendMsFromDay(_, _, _)
\* the milliseconds of [from, to) that fall on a Saturday or a Sunday,
\* counted from the day with index d on
WeekendMsFromDay(d, from, to) ==
  IF d * MsPerDay >= to THEN 0
  ELSE LET lo == IF from > d * MsPerDay THEN from ELSE d * MsPerDay
           hi == IF to < (d + 1) * MsPerDay THEN to ELSE (d + 1) * MsPerDay
       IN  (IF IsWeekend(d * MsPerDay) /\ hi > lo THEN hi - lo ELSE 0)
             + WeekendMsFromDay(d + 1, from, to)

WeekendMs(from, to) == WeekendMsFromDay(from \div MsPerDay, from, to)

\* C7: the elapsed time of a record excludes weekend days; a Saturday and a
\* Sunday between the ready instant and the first review are not counted.
C7_WeekendExcluded ==
  \A r \in Records :
    r.pickupTimeSeconds =
      (r.firstReviewTime - r.readyTime
         - WeekendMs(r.readyTime, r.firstReviewTime)) \div MsPerSecond

\* C8: a non-draft PR without ready_for_review event whose first review is
\* strictly after its creation gets a record with the creation time as ready
\* instant, first review minus creation as elapsed time and the rule
\* 'PR creation (not draft)'; a record whose candidate is a ready_for_review
\* event carries the rule 'ready_for_review event'.
C8_ReadinessRule ==
  /\ (/\ ~pr.draft
      /\ ReadyEventIndexes = {}
      /\ ReviewInstants # {}
      /\ CreatedAt < FirstReviewInstant)
       => \A r \in Returned :
            /\ r.kind = "metrics"
            /\ r.readyTime = CreatedAt
            /\ r.pickupTimeSeconds =
                 (FirstReviewInstant - CreatedAt) \div MsPerSecond
            /\ r.readyEventType = "PR creation (not draft)"
  /\ \A r \in Records :
        (pr.draft \/ r.readyTime # CreatedAt)
          => r.readyEventType = "ready_for_review event"

\* a call for a non-draft PR whose timeline holds only a convert_to_draft
\* event, reviewed days after its creation
C8_Witness ==
  /\ Called
  /\ ~pr.draft
  /\ Len(timelineEvents) > 0
  /\ ReadyEventIndexes = {}
  /\ ReviewInstants # {}
  /\ FirstReviewInstant - CreatedAt > MsPerDay

\* The PR's life on GitHub as far as the arguments tell it: the timeline
\* events in some chronological order, none before the creation, each
\* ready_for_review leaving the draft state and each convert_to_draft
\* entering it, starting from createdAsDraft and ending at pr.draft.
IsHistory(createdAsDraft, order) ==
  LET n == Len(timelineEvents)
      h(i) == timelineEvents[order[i]]
      draftBefore(i) == IF i % 2 = 1 THEN createdAsDraft ELSE ~createdAsDraft
      draftAtEnd == IF n % 2 = 0 THEN createdAsDraft ELSE ~createdAsDraft
  IN  /\ \A i, j \in 1..n : i # j => order[i] # order[j]
      /\ \A i \in 1..n : DateParse(h(i).created_at) >= CreatedAt
      /\ \A i \in 1..n : i > 1 =>
            DateParse(h(i - 1).created_at) <= DateParse(h(i).created_at)
      /\ \A i \in 1..n :
            h(i).event = (IF draftBefore(i) THEN "ready_for_review"
                                            ELSE "convert_to_draft")
      /\ pr.draft = draftAtEnd

\* the PR was opened as a draft
CreatedAsDraft ==
  \E order \in [DOMAIN timelineEvents -> DOMAIN timelineEvents] :
    IsHistory(TRUE, order)

\* C9: the creation time is the ready instant only for PRs created as
\* non-draft; a PR created as a draft and marked ready later (draft flag false
\* in the snapshot) never gets the creation candidate, even when it was
\* reviewed before its first ready_for_review event.
C9_CreationOnlyWhenCreatedNonDraft ==
  CreatedAsDraft =>
    \A r \in Records :
      \E i \in ReadyEventIndexes :
        r.readyTime = DateParse(timelineEvents[i].created_at)

----------------------------------------------------------------------------
(* C11 *)

WellFormedPR == pr # Null

\* C11: for a well-formed PR no call of calculatePickupTime raises, whatever
\* the event lists hold: every outcome is a record or null.  A call raises
\* only for a null PR reference, and for that one it does.
C11_ThrowsOnlyForNullPR ==
  \A i \in DOMAIN returned :
    /\ WellFormedPR => returned[i] = Null \/ returned[i].kind = "metrics"
    /\ returned[i] = Thrown <=> ~WellFormedPR

\* A well-formed PR whose timeline holds a null entry: the TypeError is
\* caught, logged, and the call returns null.
C11_Witness ==
  /\ WellFormedPR
  /\ \E k \in 1..Len(timelineEvents) : timelineEvents[k] = Null
  /\ Len(returned) >= 1
  /\ returned[1] = Null
  /\ logged[1] = "error: Error calculating pickup time"

----------------------------------------------------------------------------
(* GitHubClient.fetchPullRequests, fetchPRReviewEvents and                 *)
(* fetchPRTimelineEvents: one call, one action per awaited request.        *)

Methods == {"fetchPullRequests", "fetchPRReviewEvents", "fetchPRTimelineEvents"}

Branches == {"main", "dev"}

\* an entry of the pull request listing, as far as the filter reads it
ListedPR == [updated_at : Timestamps, base_ref : Branches]

\* the arguments since and targetBranch of fetchPullRequests
since == DateParse([date |-> 2, ms |-> 500])
targetBranch == "main"

\* sort: 'updated', direction: 'desc' (lines 62-63)
SortedByUpdatedDesc(l) ==
  \A i \in 1..(Len(l) - 1) :
    DateParse(l[i].updated_at) >= DateParse(l[i + 1].updated_at)

\* what the API holds for the call
Listings(m) ==
  IF m = "fetchPullRequests"
    THEN {l \in SeqsUpTo(ListedPR, MaxListed) : SortedByUpdatedDesc(l)}
  ELSE IF m = "fetchPRTimelineEvents"
    THEN SeqsUpTo([event : EventKinds, created_at : {[date |-> 2, ms |-> 0]}],
                  MaxListed)
  ELSE SeqsUpTo([submitted_at : {[date |-> 2, ms |-> 500],
                                 [date |-> 5, ms |-> 0]}], MaxListed)

\* response.data of the request for page p of a listing
PageOf(data, p) ==
  LET first == (p - 1) * PerPage + 1
      last == IF p * PerPage < Len(data) THEN p * PerPage ELSE Len(data)
  IN  SubSeq(data, first, last)

\* lines 68-71: the filter on update date and target branch
matches(listed) ==
  DateParse(listed.updated_at) >= since /\ listed.base_ref = targetBranch

\* Variant: the filter reads the update date only.
filteredPRs_DateOnly(data) ==
  LET recent(listed) == DateParse(listed.updated_at) >= since
  IN  SelectSeq(data, recent)

filteredPRs(data) == SelectSeq(data, matches)

\* what one pass of the loop keeps of response.data: the filtered PRs
\* (line 68), every timeline event (line 171), every review (line 125)
keptOf(m, data) == IF m = "fetchPullRequests" THEN filteredPRs(data) ELSE data

\* Variant: a full page ends the loop too.
hasMorePages_StopsAtFullPage(m, data) ==
  /\ m # "fetchPRReviewEvents"
  /\ Len(keptOf(m, data)) > 0
  /\ ~(Len(data) <= PerPage)

\* hasMorePages after one pass of the loop (lines 73-83, 170-180);
\* fetchPRReviewEvents makes one request (line 118)
hasMorePages(m, data) ==
  /\ m # "fetchPRReviewEvents"
  /\ Len(keptOf(m, data)) > 0
  /\ ~(Len(data) < PerPage)

\* the errors a request can fail with at time t: HTTP status, the
\* x-ratelimit-remaining header, the x-ratelimit-reset header (epoch seconds)
ResetOffsets == {0, 1, 3599, 3600}

Errors(t) ==
  [status : {403, 500},
   remaining : {"0", "1"},
   reset : {[present |-> FALSE, seconds |-> 0]} \cup
           {[present |-> TRUE, seconds |-> (t \div MsPerSecond) + d] :
              d \in ResetOffsets}]

\* parseInt(headers['x-ratelimit-reset'], 10) * 1000 (line 93)
resetTime(err) == err.reset.seconds * 1000

\* resetTime - Date.now() (line 94)
waitTime(err, t) == resetTime(err) - t

\* Variant: a wait of exactly one hour is still retried.
shouldRetry_UpToOneHour(err, t) ==
  /\ err.status = 403
  /\ err.remaining = "0"
  /\ err.reset.present
  /\ waitTime(err, t) > 0
  /\ waitTime(err, t) <= 3600000

\* lines 92-96: the conditions of the retry; a missing reset header parses
\* to NaN, and both comparisons with NaN are false
shouldRetry(err, t) ==
  /\ err.status = 403
  /\ err.remaining = "0"
  /\ err.reset.present
  /\ waitTime(err, t) > 0
  /\ waitTime(err, t) < 3600000

\* setTimeout(resolve, waitTime + 1000) (line 98): the clock when it fires
clockAfterWait(err, t) == t + waitTime(err, t) + 1000

FetchInit ==
  /\ method \in Methods
  /\ apiData \in Listings(method)
  /\ page = 1
  /\ fetched = <<>>
  /\ fetchPc = "fetching"
  /\ now = 0
  /\ fetchErr = NoError
  /\ failures = 0

InitFetch == OnlyFetch /\ FetchInit

\* a request answered with a page: one pass of the loop, and the return
\* when the loop ends (lines 56-87, 118-125, 161-184)
FetchPage ==
  /\ fetchPc = "fetching"
  /\ LET data == PageOf(apiData, page)
         kept == keptOf(method, data)
     IN  /\ fetched' = IF Len(kept) > 0 \/ method = "fetchPRReviewEvents"
                         THEN fetched \o kept ELSE fetched
         /\ page' = IF Len(kept) > 0 /\ method # "fetchPRReviewEvents"
                      THEN page + 1 ELSE page
         /\ fetchPc' = IF hasMorePages(method, data)
                         THEN "fetching" ELSE "returned"
  /\ UNCHANGED <<method, apiData, now, fetchErr, failures>>
  /\ UNCHANGED notFetchVars

\* a request that fails: the catch block up to its await or its throw
\* (lines 88-104, 126-142, 185-201)
FetchFails ==
  /\ fetchPc = "fetching"
  /\ failures < MaxFailures
  /\ \E err \in Errors(now) :
       /\ fetchErr' = err
       /\ fetchPc' = IF shouldRetry(err, now) THEN "waiting" ELSE "thrown"
  /\ failures' = failures + 1
  /\ page' = 1
  /\ fetched' = <<>>
  /\ UNCHANGED <<method, apiData, now>>
  /\ UNCHANGED notFetchVars

\* the timer fires and the method calls itself with the same arguments
\* (lines 98-99, 136-137, 195-196)
RetryAfterWait ==
  /\ fetchPc = "waiting"
  /\ now' = clockAfterWait(fetchErr, now)
  /\ fetchPc' = "fetching"
  /\ fetchErr' = NoError
  /\ page' = 1
  /\ fetched' = <<>>
  /\ UNCHANGED <<method, apiData, failures>>
  /\ UNCHANGED notFetchVars

NextFetch == FetchPage \/ FetchFails \/ RetryAfterWait

SpecFetch == InitFetch /\ [][NextFetch]_vars

\* The same call with an API that may fail any number of times.  The code
\* keeps no count of its retries: failures is counted up to MaxFailures
\* only.  The clock is read from the start of the current attempt on, which
\* the retry rule cannot tell from the time since the first attempt, as it
\* reads the clock only through resetTime - Date.now() and the reset time
\* of an error is drawn relative to the clock.
FetchFailsForever ==
  /\ fetchPc = "fetching"
  /\ \E err \in Errors(now) :
       /\ fetchErr' = err
       /\ fetchPc' = IF shouldRetry(err, now) THEN "waiting" ELSE "thrown"
  /\ failures' = IF failures < MaxFailures THEN failures + 1 ELSE failures
  /\ page' = 1
  /\ fetched' = <<>>
  /\ UNCHANGED <<method, apiData, now>>
  /\ UNCHANGED notFetchVars

RetryAfterWaitForever ==
  /\ fetchPc = "waiting"
  /\ now' = 0
  /\ fetchPc' = "fetching"
  /\ fetchErr' = NoError
  /\ page' = 1
  /\ fetched' = <<>>
  /\ UNCHANGED <<method, apiData, failures>>
  /\ UNCHANGED notFetchVars

NextFetchForever == FetchPage \/ FetchFailsForever \/ RetryAfterWaitForever

\* every request is answered, with a page or with an error, and every
\* timer fires
SpecFetchForever ==
  InitFetch /\ [][NextFetchForever]_vars /\ WF_vars(NextFetchForever)

----------------------------------------------------------------------------
(* C12 *)

\* the PRs of the whole listing that pass the filter
AllMatching == filteredPRs(apiData)

\* C12: when fetchPullRequests returns, every PR of the listing that was
\* updated on or after since and targets the branch is in the returned list.
C12_DrainsListingFully ==
  (method = "fetchPullRequests" /\ fetchPc = "returned")
    => fetched = AllMatching

----------------------------------------------------------------------------
(* C17 *)

OneHourMs == 60 * 60 * MsPerSecond

\* the rule as stated: HTTP 403, remaining quota '0', and a reset time
\* strictly ahead of the clock by less than one hour
RateLimitedWithShortWait(err, t) ==
  /\ err.status = 403
  /\ err.remaining = "0"
  /\ err.reset.present
  /\ err.reset.seconds * MsPerSecond > t
  /\ err.reset.seconds * MsPerSecond < t + OneHourMs

\* C17: a failed request of any of the three fetch methods leads to a retry
\* exactly when it is a 403 with remaining quota '0' and a wait that is
\* strictly positive and under one hour; the retry starts only once the
\* clock has reached the reset time; in every other case the call ends by
\* throwing the error it caught, and takes no further step.
C17_RateLimitRetryRule ==
  [][ /\ (fetchPc = "fetching" /\ fetchErr' # NoError) =>
           /\ RateLimitedWithShortWait(fetchErr', now') => fetchPc' = "waiting"
           /\ ~RateLimitedWithShortWait(fetchErr', now') => fetchPc' = "thrown"
      /\ (fetchPc = "waiting") =>
           /\ RateLimitedWithShortWait(fetchErr, now)
           /\ fetchPc' = "fetching" /\ page' = 1 /\ fetched' = <<>>
           /\ now' >= fetchErr.reset.seconds * MsPerSecond
      /\ ~(failures' > failures /\ fetchPc' = "fetching")
      /\ fetchPc # "thrown"
    ]_vars

\* A call that was rate limited, waited until the reset time, retried and
\* returned the listing.
C17_Witness ==
  /\ failures = 1
  /\ fetchPc = "returned"
  /\ now >= MsPerSecond
  /\ Len(fetched) = MaxListed

----------------------------------------------------------------------------
(* MetricsCollector (metrics-collector.js): run, initialize,               *)
(* collectMetrics, collectRepositoryMetrics, printMetrics, uploadMetrics.  *)
(* One action per stretch of code between awaited calls; what the GitHub   *)
(* API and the warehouse answer is chosen by the environment.              *)

\* repository identifiers, as strings of characters
RepoAX == <<"a", "/", "x">>
RepoBY == <<"b", "/", "y">>
RepoNoName == <<"a", "/">>
RepoNoSlash == <<"a", "x">>

RepoStrings == {RepoAX, RepoBY, RepoNoName}

\* config.repositories: one or two identifiers that passed validateConfig
RepositoryLists ==
  {<<r>> : r \in RepoStrings} \cup
  {<<r1, r2>> : r1 \in RepoStrings, r2 \in RepoStrings}

\* String.prototype.split(sep) from position i on: the segments between
\* the separators
RECURSIVE SplitAt(_, _, _)
SplitAt(str, sep, i) ==
  IF i > Len(str) THEN << <<>> >>
  ELSE LET rest == SplitAt(str, sep, i + 1)
       IN  IF str[i] = sep
             THEN << <<>> >> \o rest
             ELSE << <<str[i]>> \o rest[1] >> \o Tail(rest)

split(str) == SplitAt(str, "/", 1)

\* lines 58-59: const [owner, repo] = repository.split('/'), a missing
\* element (undefined) and an empty string both being falsy
validRepository(repository) ==
  LET parts == split(repository)
  IN  /\ Len(parts) >= 2
      /\ parts[1] # <<>>
      /\ parts[2] # <<>>

\* what fetchPullRequests resolves to: the PRs of the repository, numbered
\* in listing order
PRListings == {[i \in 1..k |-> i] : k \in 0..MaxPRs}

\* how one pass of the loop over the PRs can end (lines 86-113)
PROutcomes ==
  {"timeline fetch failed", "review fetch failed", "no metric", "metric"}

\* the record calculatePickupTime returns for a PR, as far as the collector
\* and the upload read it
MetricOf(repository, prNumber) ==
  [repository |-> repository, prNumber |-> prNumber]

\* Variant: no try around the pass, so a failed fetch reaches the outer
\* catch, which returns [].
metricsAfter_OuterCatch(ms, repository, prNumber, outcome) ==
  IF outcome = "metric" THEN Append(ms, MetricOf(repository, prNumber))
  ELSE IF outcome = "no metric" THEN ms
  ELSE <<>>

\* lines 98-113: a pass over one PR with the given outcome leaves metrics as
metricsAfter(ms, repository, prNumber, outcome) ==
  IF outcome = "metric" THEN Append(ms, MetricOf(repository, prNumber)) ELSE ms

InitCollect ==
  /\ OnlyCollect
  /\ printOnly \in BOOLEAN
  /\ repositories \in RepositoryLists
  /\ runPc = "start"
  /\ bigqueryClient = FALSE
  /\ repoIdx = 1
  /\ pullRequests = <<>>
  /\ prIdx = 1
  /\ metrics = <<>>
  /\ allMetrics = <<>>
  /\ lastOutcome = "none"
  /\ printed = <<>>
  /\ uploaded = <<>>
  /\ warehouseCalls = <<>>
  /\ errorLog = {}

\* collectRepositoryMetrics returns ms: collectMetrics appends it and turns
\* to the next repository, or returns the aggregate to run (lines 136-142)
RepositoryReturns(ms) ==
  /\ allMetrics' = allMetrics \o ms
  /\ repoIdx' = repoIdx + 1
  /\ pullRequests' = <<>>
  /\ prIdx' = 1
  /\ metrics' = <<>>
  /\ runPc' = IF repoIdx + 1 > Len(repositories) THEN "output" ELSE "repository"

\* what is logged when the BigQuery client cannot be built
\* (bigquery-client.js line 42, part_004 lines 47 and 251)
InitializeErrors ==
  {"Failed to initialize BigQuery client",
   "Failed to initialize metrics collector",
   "Error running engineering metrics collection"}

\* Variant: initialize builds the BigQuery client whatever printOnly says.
Initialize_AlwaysBuildsClient ==
  /\ runPc = "start"
  /\ \E keyFileExists \in BOOLEAN :
       /\ bigqueryClient' = keyFileExists
       /\ runPc' = IF keyFileExists THEN "repository" ELSE "failed"
       /\ errorLog' = IF keyFileExists THEN errorLog ELSE InitializeErrors
  /\ UNCHANGED <<printOnly, repositories, repoIdx, pullRequests, prIdx,
                 metrics, allMetrics, lastOutcome, printed, uploaded,
                 warehouseCalls>>
  /\ UNCHANGED notCollectVars

\* run calls initialize (lines 31-50, 235): the BigQuery client is built
\* unless printOnly; its constructor throws when the key file is missing
Initialize ==
  /\ runPc = "start"
  /\ \E keyFileExists \in BOOLEAN :
       IF printOnly
         THEN /\ bigqueryClient' = FALSE
              /\ runPc' = "repository"
              /\ UNCHANGED errorLog
         ELSE /\ bigqueryClient' = keyFileExists
              /\ runPc' = IF keyFileExists THEN "repository" ELSE "failed"
              /\ errorLog' = IF keyFileExists THEN errorLog
                                              ELSE InitializeErrors
  /\ UNCHANGED <<printOnly, repositories, repoIdx, pullRequests, prIdx,
                 metrics, allMetrics, lastOutcome, printed, uploaded,
                 warehouseCalls>>
  /\ UNCHANGED notCollectVars

\* Variant: a failed listing is rethrown and ends the run.
CollectRepository_Rethrows ==
  /\ runPc = "repository"
  /\ IF ~validRepository(repositories[repoIdx])
       THEN /\ RepositoryReturns(<<>>)
            /\ lastOutcome' = "invalid repository"
            /\ errorLog' = errorLog \cup {"Invalid repository format"}
       ELSE \E listingFails \in BOOLEAN, prs \in PRListings :
              IF listingFails
                THEN /\ runPc' = "failed"
                     /\ lastOutcome' = "listing failed"
                     /\ errorLog' = errorLog \cup {"Error fetching PRs"}
                     /\ UNCHANGED <<allMetrics, repoIdx, pullRequests, prIdx,
                                    metrics>>
              ELSE IF prs = <<>>
                THEN /\ RepositoryReturns(<<>>)
                     /\ lastOutcome' = "none"
                     /\ UNCHANGED errorLog
                ELSE /\ pullRequests' = prs
                     /\ prIdx' = 1
                     /\ metrics' = <<>>
                     /\ runPc' = "pull requests"
                     /\ lastOutcome' = "none"
                     /\ UNCHANGED <<allMetrics, repoIdx, errorLog>>
  /\ UNCHANGED <<printOnly, repositories, bigqueryClient, printed, uploaded,
                 warehouseCalls>>
  /\ UNCHANGED notCollectVars

\* collectRepositoryMetrics up to the loop over the PRs (lines 57-83): an
\* invalid identifier and a failed listing both return []
CollectRepository ==
  /\ runPc = "repository"
  /\ IF ~validRepository(repositories[repoIdx])
       THEN /\ RepositoryReturns(<<>>)
            /\ lastOutcome' = "invalid repository"
            /\ errorLog' = errorLog \cup {"Invalid repository format"}
       ELSE \E listingFails \in BOOLEAN, prs \in PRListings :
              IF listingFails
                THEN /\ RepositoryReturns(<<>>)
                     /\ lastOutcome' = "listing failed"
                     /\ errorLog' = errorLog \cup {"Error fetching PRs"}
              ELSE IF prs = <<>>
                THEN /\ RepositoryReturns(<<>>)
                     /\ lastOutcome' = "none"
                     /\ UNCHANGED errorLog
                ELSE /\ pullRequests' = prs
                     /\ prIdx' = 1
                     /\ metrics' = <<>>
                     /\ runPc' = "pull requests"
                     /\ lastOutcome' = "none"
                     /\ UNCHANGED <<allMetrics, repoIdx, errorLog>>
  /\ UNCHANGED <<printOnly, repositories, bigqueryClient, printed, uploaded,
                 warehouseCalls>>
  /\ UNCHANGED notCollectVars

\* what the client logs when a fetch for a PR fails (part_001 lines 127
\* and 186)
PRErrors(outcome) ==
  IF outcome = "timeline fetch failed"
    THEN {"Error fetching timeline events"}
  ELSE IF outcome = "review fetch failed"
    THEN {"Error fetching review events"}
  ELSE {}

\* one pass of the loop over the PRs, and the return after the last one
\* (lines 85-117)
CollectPR ==
  /\ runPc = "pull requests"
  /\ \E outcome \in PROutcomes :
       LET ms == metricsAfter(metrics, repositories[repoIdx],
                              pullRequests[prIdx], outcome)
       IN  /\ lastOutcome' = outcome
           /\ errorLog' = errorLog \cup PRErrors(outcome)
           /\ IF prIdx < Len(pullRequests)
                THEN /\ metrics' = ms
                     /\ prIdx' = prIdx + 1
                     /\ UNCHANGED <<runPc, allMetrics, repoIdx, pullRequests>>
                ELSE RepositoryReturns(ms)
  /\ UNCHANGED <<printOnly, repositories, bigqueryClient, printed, uploaded,
                 warehouseCalls>>
  /\ UNCHANGED notCollectVars

\* the warehouse request of BigQueryClient.uploadMetrics that raises, if
\* one does
WarehouseFailures ==
  {"none", "createTableIfNotExists", "checkExistingMetrics", "insert"}

\* the requests BigQueryClient.uploadMetrics issues, in order, as far as it
\* gets (bigquery-client.js lines 280-303): nothing follows a failed table
\* creation, and no insert follows a check that found every record stored
warehouseCallsOf(failure, allStored) ==
  IF failure = "createTableIfNotExists" THEN <<"createTableIfNotExists">>
  ELSE IF failure = "none" /\ allStored
    THEN <<"createTableIfNotExists", "checkExistingMetrics">>
  ELSE <<"createTableIfNotExists", "checkExistingMetrics", "insert">>

\* Variant: a failed insert is logged and not rethrown.
uploadRaises_CreationOnly(failure) ==
  failure = "createTableIfNotExists"

\* whether BigQueryClient.uploadMetrics throws: createTableIfNotExists and
\* the catch of uploadMetrics rethrow (lines 88-90 and 313-323), the catch
\* of checkExistingMetrics does not (lines 251-258)
uploadRaises(failure) ==
  failure \in {"createTableIfNotExists", "insert"}

\* what the layers log on the way (bigquery-client.js lines 89, 252 and 314,
\* part_004 lines 222 and 251)
UploadErrors(failure) ==
  (IF failure = "createTableIfNotExists" THEN {"Error creating table"}
   ELSE IF failure = "checkExistingMetrics"
     THEN {"Error checking existing metrics in BigQuery"}
   ELSE {})
  \cup
  (IF failure \in {"createTableIfNotExists", "insert"}
     THEN {"Error uploading metrics to BigQuery table"} ELSE {})
  \cup
  (IF uploadRaises(failure)
     THEN {"Error uploading metrics to BigQuery",
           "Error running engineering metrics collection"}
     ELSE {})

\* run's branch on printOnly (lines 240-246) with printMetrics (152-199)
\* and uploadMetrics (205-225)
Output ==
  /\ runPc = "output"
  /\ IF printOnly
       THEN /\ printed' = allMetrics
            /\ runPc' = "completed"
            /\ UNCHANGED <<uploaded, warehouseCalls, errorLog>>
       ELSE IF Len(allMetrics) = 0
         THEN /\ runPc' = "completed"
              /\ UNCHANGED <<printed, uploaded, warehouseCalls, errorLog>>
         ELSE \E failure \in WarehouseFailures, allStored \in BOOLEAN :
                /\ uploaded' = allMetrics
                /\ warehouseCalls' = warehouseCallsOf(failure, allStored)
                /\ errorLog' = errorLog \cup UploadErrors(failure)
                /\ runPc' = IF uploadRaises(failure) THEN "failed"
                                                     ELSE "completed"
                /\ UNCHANGED printed
  /\ UNCHANGED <<printOnly, repositories, bigqueryClient, repoIdx,
                 pullRequests, prIdx, metrics, allMetrics, lastOutcome>>
  /\ UNCHANGED notCollectVars

\* main after run (index.js lines 43-50): process.exit(0) when run
\* returned, process.exit(1) when it threw
exitCode == IF runPc = "failed" THEN 1 ELSE 0

NextCollect == Initialize \/ CollectRepository \/ CollectPR \/ Output

SpecCollect == InitCollect /\ [][NextCollect]_vars

----------------------------------------------------------------------------
(* C13 *)

FetchFailed == lastOutcome' \in {"timeline fetch failed", "review fetch failed"}

\* C13: when the timeline or review fetch of a PR fails, the records
\* collected so far for the repository are kept and nothing is added; if
\* the PR is not the last one the loop goes on with the next PR, otherwise
\* the repository's records are returned to the aggregate; the run does not
\* fail.
C13_FailedPRIsSkippedAlone ==
  [][ (runPc = "pull requests" /\ FetchFailed) =>
        /\ runPc' # "failed"
        /\ IF prIdx < Len(pullRequests)
             THEN /\ runPc' = "pull requests"
                  /\ prIdx' = prIdx + 1
                  /\ pullRequests' = pullRequests
                  /\ metrics' = metrics
                  /\ allMetrics' = allMetrics
             ELSE allMetrics' = allMetrics \o metrics
    ]_vars

\* The first PR gave a record, the fetch for the second failed, and the
\* repository returned the first PR's record.
C13_Witness ==
  /\ lastOutcome = "review fetch failed"
  /\ repoIdx = 2
  /\ allMetrics = <<MetricOf(RepoAX, 1)>>

----------------------------------------------------------------------------
(* C18 *)

RunEnded == runPc \in {"completed", "failed"}

\* C18: in a run with printOnly true the BigQuery client is never built and
\* no table creation, existence query or insert is issued; in a run with
\* printOnly false nothing is printed and, once the run has ended, what was
\* handed to the warehouse upload is exactly what was collected.
C18_OutputRouting ==
  /\ printOnly =>
       /\ bigqueryClient = FALSE
       /\ warehouseCalls = <<>>
       /\ uploaded = <<>>
  /\ (~printOnly /\ runPc # "idle") =>
       /\ printed = <<>>
       /\ RunEnded => uploaded = allMetrics

\* A print-only run that collected two records and printed them.
C18_Witness ==
  /\ printOnly
  /\ runPc = "completed"
  /\ Len(allMetrics) = 2
  /\ printed = allMetrics
  /\ ~bigqueryClient

----------------------------------------------------------------------------
(* BigQueryClient.uploadMetrics (bigquery-client.js lines 267-325), called  *)
(* by runs that share one destination table.  One action per stretch of    *)
(* code between awaited warehouse requests.                                *)

UploadPRNumbers == {1, 2}

\* a record of a batch, as far as the upload reads it: the records of the
\* first-review metric, and one record of a kind the upload does not know
Metric ==
  [prNumber : UploadPRNumbers, repository : {RepoAX, RepoBY},
   metricType : {"time_to_first_review"}]
  \cup {[prNumber |-> 2, repository |-> RepoAX, metricType |-> "unknown_type"]}

\* the batches: at most one record for a PR of a repository
Batches ==
  {b \in SeqsUpTo(Metric, MaxBatch) :
     \A i, j \in DOMAIN b :
       (b[i].repository = b[j].repository /\ b[i].prNumber = b[j].prNumber)
         => i = j}

\* lines 175-206: the row of a record; an unknown metric type throws
KnownType(m) == m.metricType = "time_to_first_review"

transformMetricsToRow(m) ==
  [pr_number |-> m.prNumber, repository |-> m.repository]

\* SELECT pr_number FROM table WHERE pr_number IN (prNumbers), lines 232-240
StoredNumbers(tbl) == {tbl[i].pr_number : i \in DOMAIN tbl}

\* Variant: a failed query reports every PR number as existing.
existingMetrics_FailedMeansStored(tbl, exists, failed) ==
  IF failed THEN UploadPRNumbers
  ELSE IF ~exists THEN {} ELSE StoredNumbers(tbl)

\* lines 215-259: the PR numbers checkExistingMetrics reports as existing;
\* none when the table does not exist or the query throws
existingMetrics(tbl, exists, failed) ==
  IF ~exists \/ failed THEN {} ELSE StoredNumbers(tbl)

\* line 286: metrics.filter(metric => !existingMetrics[metric.prNumber])
IsNewIn(existing, m) == m.prNumber \notin existing

newMetrics(ms, existing) ==
  LET isNew(m) == IsNewIn(existing, m) IN SelectSeq(ms, isNew)

\* line 294: newMetrics.map(transformMetricsToRow)
rowsOf(ms) == [i \in DOMAIN ms |-> transformMetricsToRow(ms[i])]

\* Variant: an insert that skips the rows whose PR number is stored by then.
tableAfterInsert_IfAbsent(tbl, rows) ==
  LET absent(row) == \A i \in DOMAIN tbl : tbl[i].pr_number # row.pr_number
  IN  tbl \o SelectSeq(rows, absent)

\* line 300: table.insert(rows) appends the rows it is given
tableAfterInsert(tbl, rows) == tbl \o rows

InFlight(r) == upPc[r] \in {"check", "insert"}

InitUpload ==
  /\ OnlyUpload
  /\ table = <<>>
  /\ tableExists \in BOOLEAN
  /\ upPc = [r \in Runs |-> "idle"]
  /\ batch = [r \in Runs |-> <<>>]
  /\ pendingRows = [r \in Runs |-> <<>>]
  /\ storedAtCheck = [r \in Runs |-> {}]
  /\ queryFailed = [r \in Runs |-> FALSE]

\* the call, up to the end of createTableIfNotExists (lines 267-281 and
\* 53-93): an empty batch returns at once, a failed creation throws
UploadMetrics(r) ==
  /\ upPc[r] = "idle"
  /\ \E b \in Batches, creationFails \in BOOLEAN :
       /\ batch' = [batch EXCEPT ![r] = b]
       /\ IF Len(b) = 0
            THEN /\ upPc' = [upPc EXCEPT ![r] = "done"]
                 /\ UNCHANGED tableExists
            ELSE IF creationFails
              THEN /\ upPc' = [upPc EXCEPT ![r] = "failed"]
                   /\ UNCHANGED tableExists
              ELSE /\ upPc' = [upPc EXCEPT ![r] = "check"]
                   /\ tableExists' = TRUE
  /\ UNCHANGED <<table, pendingRows, storedAtCheck, queryFailed>>
  /\ UNCHANGED notUploadVars

\* checkExistingMetrics, the filter and the transformation (lines 283-297)
CheckExistingMetrics(r) ==
  /\ upPc[r] = "check"
  /\ \E failed \in BOOLEAN :
       LET fresh == newMetrics(batch[r],
                               existingMetrics(table, tableExists, failed))
       IN  /\ queryFailed' = [queryFailed EXCEPT ![r] = failed]
           /\ storedAtCheck' = [storedAtCheck EXCEPT ![r] = StoredNumbers(table)]
           /\ IF Len(fresh) = 0
                THEN /\ upPc' = [upPc EXCEPT ![r] = "done"]
                     /\ UNCHANGED pendingRows
                ELSE IF \E i \in DOMAIN fresh : ~KnownType(fresh[i])
                  THEN /\ upPc' = [upPc EXCEPT ![r] = "failed"]
                       /\ UNCHANGED pendingRows
                  ELSE /\ upPc' = [upPc EXCEPT ![r] = "insert"]
                       /\ pendingRows' = [pendingRows EXCEPT ![r] = rowsOf(fresh)]
  /\ UNCHANGED <<table, tableExists, batch>>
  /\ UNCHANGED notUploadVars

\* table.insert(rows) answers (lines 300-312)
Insert(r) ==
  /\ upPc[r] = "insert"
  /\ \E insertFails \in BOOLEAN :
       IF insertFails
         THEN /\ upPc' = [upPc EXCEPT ![r] = "failed"]
              /\ UNCHANGED table
         ELSE /\ upPc' = [upPc EXCEPT ![r] = "done"]
              /\ table' = tableAfterInsert(table, pendingRows[r])
  /\ UNCHANGED <<tableExists, batch, pendingRows, storedAtCheck, queryFailed>>
  /\ UNCHANGED notUploadVars

\* runs that may overlap
NextUpload ==
  \E r \in Runs : UploadMetrics(r) \/ CheckExistingMetrics(r) \/ Insert(r)

SpecUpload == InitUpload /\ [][NextUpload]_vars

\* complete, non-overlapping runs: a run starts only when no other run is
\* between its start and its end
UploadMetricsAlone(r) ==
  /\ \A q \in Runs \ {r} : ~InFlight(q)
  /\ UploadMetrics(r)

NextUploadInTurn ==
  \E r \in Runs : UploadMetricsAlone(r) \/ CheckExistingMetrics(r) \/ Insert(r)

SpecUploadInTurn == InitUpload /\ [][NextUploadInTurn]_vars

----------------------------------------------------------------------------
(* C14, C15, C16 *)

IsPrefix(a, b) == Len(a) <= Len(b) /\ SubSeq(b, 1, Len(a)) = a

AllStored(ms, tbl) ==
  \A i \in DOMAIN ms : ms[i].prNumber \in StoredNumbers(tbl)

\* C14: when a run's existence check and filter are done, no row it is
\* about to insert has a PR number that is stored in the table; the rows
\* stored stay as they are; and when every record of the batch is stored
\* already the call ends without an insert.
C14_StoredNumbersAreNotReinserted ==
  [][ /\ IsPrefix(table, table')
      /\ \A r \in Runs :
           (upPc[r] = "check" /\ upPc'[r] # "check") =>
             /\ \A i \in DOMAIN pendingRows'[r] :
                  pendingRows'[r][i].pr_number \notin StoredNumbers(table)
             /\ AllStored(batch[r], table) => upPc'[r] = "done"
    ]_vars

\* C15: once no run is in flight, the table holds at most one row for each
\* PR number.
C15_OneRowPerPRNumber ==
  (\A r \in Runs : ~InFlight(r)) =>
    \A i, j \in DOMAIN table :
      table[i].pr_number = table[j].pr_number => i = j

----------------------------------------------------------------------------
(* main (index.js) and loadConfig (config.js).  The repository holds two   *)
(* copies of the program: the action under .github/actions/eng-metrics     *)
(* and the standalone application at the root.                             *)

Snapshots == {"action", "root"}

\* process.argv.slice(2)
ArgLists ==
  { <<>>, <<"config.json">>, <<"--print-only">>,
    <<"config.json", "--print-only">>, <<"--print-only", "config.json">> }

\* "a/x, b/y"
TwoRepositories == RepoAX \o <<",", " ">> \o RepoBY

Environments ==
  [REPOSITORIES : {Unset(<<>>), [set |-> TRUE, str |-> TwoRepositories]},
   GITHUB_TOKEN : {Unset(""), [set |-> TRUE, str |-> ""],
                   [set |-> TRUE, str |-> "env token"]},
   BIGQUERY_PROJECT_ID : {Unset(""), [set |-> TRUE, str |-> "env project"]},
   SERVICE_ACCOUNT_KEY_PATH : {Unset(""), [set |-> TRUE, str |-> "env key"]},
   TARGET_BRANCH : {Unset(""), [set |-> TRUE, str |-> "env branch"]},
   PRINT_ONLY : {Unset(""), [set |-> TRUE, str |-> "true"],
                 [set |-> TRUE, str |-> "false"]}]

\* the objects config.json can hold
FileConfigs ==
  [repositories : {Absent(<<>>), Value(<<>>), Value(<<RepoBY>>),
                   Value(<<RepoNoName>>), Value(<<RepoNoSlash>>)},
   githubToken : {Absent(""), Value("file token")},
   bigQueryProjectId : {Absent(""), Value("file project")},
   serviceAccountKeyPath : {Absent(""), Value("file key")},
   targetBranch : {Absent(""), Value("file branch")},
   printOnly : {Absent(FALSE), Value(TRUE), Value(FALSE)}]

\* config.js lines 20-34
DEFAULT_CONFIG ==
  [EmptyObject EXCEPT !.targetBranch = Value("main"),
                      !.printOnly = Value(FALSE)]

\* String.prototype.trim
RECURSIVE trim(_)
trim(str) ==
  IF Len(str) > 0 /\ str[1] = " " THEN trim(Tail(str))
  ELSE IF Len(str) > 0 /\ str[Len(str)] = " "
    THEN trim(SubSeq(str, 1, Len(str) - 1))
  ELSE str

\* process.env.REPOSITORIES.split(',').map(repo => repo.trim())
parseRepositories(str) ==
  LET parts == SplitAt(str, ",", 1)
  IN  [i \in DOMAIN parts |-> trim(parts[i])]

\* a string environment variable is truthy when set and not empty
TruthyVar(v, blank) == v.set /\ v.str # blank

\* index.js lines 19 and 23: the flag and the configuration path; the
\* root copy takes process.argv[2] as the path whatever it is
printOnlyFlag(a) == \E i \in DOMAIN a : a[i] = "--print-only"

configPath(snap, a) ==
  LET paths == IF snap = "action"
                 THEN LET notFlag(x) == x # "--print-only"
                      IN  SelectSeq(a, notFlag)
                 ELSE a
  IN  IF Len(paths) > 0 THEN paths[1] ELSE "config.json"

\* loadConfigFromFile (lines 40-56): {} when the file does not exist
loadConfigFromFile(path, file) ==
  IF path = "config.json" THEN file ELSE EmptyObject

\* loadConfigFromEnv of the action (config.js lines 62-81): only the truthy
\* variables become keys
loadConfigFromEnvAction(e) ==
  [repositories |->
     IF TruthyVar(e.REPOSITORIES, <<>>)
       THEN Value(parseRepositories(e.REPOSITORIES.str)) ELSE Absent(<<>>),
   githubToken |->
     IF TruthyVar(e.GITHUB_TOKEN, "")
       THEN Value(e.GITHUB_TOKEN.str) ELSE Absent(""),
   bigQueryProjectId |->
     IF TruthyVar(e.BIGQUERY_PROJECT_ID, "")
       THEN Value(e.BIGQUERY_PROJECT_ID.str) ELSE Absent(""),
   serviceAccountKeyPath |->
     IF TruthyVar(e.SERVICE_ACCOUNT_KEY_PATH, "")
       THEN Value(e.SERVICE_ACCOUNT_KEY_PATH.str) ELSE Absent(""),
   targetBranch |->
     IF TruthyVar(e.TARGET_BRANCH, "")
       THEN Value(e.TARGET_BRANCH.str) ELSE Absent(""),
   printOnly |->
     IF TruthyVar(e.PRINT_ONLY, "")
       THEN Value(e.PRINT_ONLY.str = "true") ELSE Absent(FALSE)]

\* process.env.X as a property value: undefined when X is not set
EnvProperty(v, blank) == IF v.set THEN Value(v.str) ELSE Undefined(blank)

\* loadConfigFromEnv of the root copy (part_002 lines 62-78): every key is
\* there, holding undefined when the variable is not set, and printOnly
\* always holds a boolean
loadConfigFromEnvRoot(e) ==
  [repositories |->
     IF TruthyVar(e.REPOSITORIES, <<>>)
       THEN Value(parseRepositories(e.REPOSITORIES.str)) ELSE Undefined(<<>>),
   githubToken |-> EnvProperty(e.GITHUB_TOKEN, ""),
   bigQueryProjectId |-> EnvProperty(e.BIGQUERY_PROJECT_ID, ""),
   serviceAccountKeyPath |-> EnvProperty(e.SERVICE_ACCOUNT_KEY_PATH, ""),
   targetBranch |-> EnvProperty(e.TARGET_BRANCH, ""),
   printOnly |-> Value(e.PRINT_ONLY.set /\ e.PRINT_ONLY.str = "true")]

loadConfigFromEnv(snap, e) ==
  IF snap = "action" THEN loadConfigFromEnvAction(e)
                     ELSE loadConfigFromEnvRoot(e)

\* { ...a, ...b }: every own key of b replaces a's
Spread(a, b) ==
  [k \in DOMAIN a |-> IF b[k].key # "absent" THEN b[k] ELSE a[k]]

\* lines 146-150: delete the keys that hold undefined
deleteUndefined(obj) ==
  [k \in DOMAIN obj |->
     IF obj[k].key = "undefined" THEN [obj[k] EXCEPT !.key = "absent"]
                                 ELSE obj[k]]

\* lines 140-150: the merged configuration
mergedConfig(snap, path, file, e) ==
  deleteUndefined(
    Spread(Spread(DEFAULT_CONFIG, loadConfigFromFile(path, file)),
           loadConfigFromEnv(snap, e)))

\* !config[field] for a string field
MissingString(p) == p.key # "value" \/ p.val = ""

includesSlash(str) == \E i \in DOMAIN str : str[i] = "/"

\* validateConfig (lines 88-124)
validateConfig(cfg) ==
  /\ cfg.repositories.key = "value"
  /\ ~MissingString(cfg.githubToken)
  /\ (cfg.printOnly.key = "value" /\ cfg.printOnly.val)
       \/ (/\ ~MissingString(cfg.bigQueryProjectId)
           /\ ~MissingString(cfg.serviceAccountKeyPath))
  /\ Len(cfg.repositories.val) > 0
  /\ \A i \in DOMAIN cfg.repositories.val :
       includesSlash(cfg.repositories.val[i])

InitConfig ==
  /\ OnlyConfig
  /\ snapshot \in Snapshots
  /\ args \in ArgLists
  /\ env \in Environments
  /\ fileConfig \in FileConfigs
  /\ mainPc = "start"
  /\ loaded = EmptyObject
  /\ config = EmptyObject

\* main up to the start of the collector (index.js lines 14-36): loadConfig
\* throws 'Invalid configuration' and main exits with code 1, or the flag
\* is applied to what loadConfig returned
Main ==
  /\ mainPc = "start"
  /\ LET cfg == mergedConfig(snapshot, configPath(snapshot, args),
                             fileConfig, env)
     IN  IF validateConfig(cfg)
           THEN /\ loaded' = cfg
                /\ config' = IF printOnlyFlag(args)
                               THEN [cfg EXCEPT !.printOnly = Value(TRUE)]
                               ELSE cfg
                /\ mainPc' = "running"
           ELSE /\ mainPc' = "exit 1"
                /\ UNCHANGED <<loaded, config>>
  /\ UNCHANGED <<snapshot, args, env, fileConfig>>
  /\ UNCHANGED notConfigVars

NextConfig == Main

SpecConfig == InitConfig /\ [][NextConfig]_vars

----------------------------------------------------------------------------
(* C19, C20 *)

\* the file main reads
FileRead == loadConfigFromFile(configPath(snapshot, args), fileConfig)

\* print-only mode asked for by one of the three documented means
PrintOnlyByFlag == printOnlyFlag(args)
PrintOnlyByEnv == env.PRINT_ONLY.set /\ env.PRINT_ONLY.str = "true"
PrintOnlyByFile ==
  /\ ~env.PRINT_ONLY.set
  /\ fileConfig.printOnly = Value(TRUE)
  /\ configPath(snapshot, args) = "config.json"

\* the repositories and the API token are given in the environment
RepositoriesAndTokenGiven ==
  /\ TruthyVar(env.REPOSITORIES, <<>>)
  /\ TruthyVar(env.GITHUB_TOKEN, "")

\* C19: when print-only mode is asked for by the config file, by
\* PRINT_ONLY=true or by the --print-only flag, and the repositories and the
\* token are given, main does not reject the configuration, with or without
\* a BigQuery project ID and key path.
C19_PrintOnlyNeedsNoWarehouseFields ==
  (/\ mainPc # "start"
   /\ PrintOnlyByFlag \/ PrintOnlyByEnv \/ PrintOnlyByFile
   /\ RepositoriesAndTokenGiven)
    => mainPc = "running"

\* the value the precedence rule gives a key: the environment's when the
\* variable is set to something, otherwise the file's when the file
\* defines the key, otherwise the default
Resolved(fromEnv, fromFile, default) ==
  IF fromEnv.key = "value" THEN fromEnv
  ELSE IF fromFile.key = "value" THEN fromFile
  ELSE default

EnvString(v) == IF TruthyVar(v, "") THEN Value(v.str) ELSE Absent("")

\* C20: the configuration loadConfig returns holds for every key the value
\* of the environment variable when it is set, otherwise the value in the
\* file when the file defines the key, otherwise the default.
C20_EnvOverFileOverDefault ==
  mainPc = "running" =>
    /\ loaded.repositories =
         Resolved(IF TruthyVar(env.REPOSITORIES, <<>>)
                    THEN Value(parseRepositories(env.REPOSITORIES.str))
                    ELSE Absent(<<>>),
                  FileRead.repositories, DEFAULT_CONFIG.repositories)
    /\ loaded.githubToken =
         Resolved(EnvString(env.GITHUB_TOKEN), FileRead.githubToken,
                  DEFAULT_CONFIG.githubToken)
    /\ loaded.bigQueryProjectId =
         Resolved(EnvString(env.BIGQUERY_PROJECT_ID),
                  FileRead.bigQueryProjectId, DEFAULT_CONFIG.bigQueryProjectId)
    /\ loaded.serviceAccountKeyPath =
         Resolved(EnvString(env.SERVICE_ACCOUNT_KEY_PATH),
                  FileRead.serviceAccountKeyPath,
                  DEFAULT_CONFIG.serviceAccountKeyPath)
    /\ loaded.targetBranch =
         Resolved(EnvString(env.TARGET_BRANCH), FileRead.targetBranch,
                  DEFAULT_CONFIG.targetBranch)
    /\ loaded.printOnly =
         Resolved(IF TruthyVar(env.PRINT_ONLY, "")
                    THEN Value(env.PRINT_ONLY.str = "true")
                    ELSE Absent(FALSE),
                  FileRead.printOnly, DEFAULT_CONFIG.printOnly)

----------------------------------------------------------------------------
(* C21 *)

\* the configuration main validates
Merged == mergedConfig(snapshot, configPath(snapshot, args), fileConfig, env)

\* a required field is missing: the repositories or the token, or, outside
\* print-only mode, the BigQuery project or the key path
MissingRequiredField ==
  \/ Merged.repositories.key # "value"
  \/ MissingString(Merged.githubToken)
  \/ /\ ~(Merged.printOnly.key = "value" /\ Merged.printOnly.val)
     /\ ~printOnlyFlag(args)
     /\ \/ MissingString(Merged.bigQueryProjectId)
        \/ MissingString(Merged.serviceAccountKeyPath)

EmptyRepositoryList ==
  Merged.repositories.key = "value" /\ Merged.repositories.val = <<>>

\* an identifier is well formed when it is exactly a non-empty owner and a
\* non-empty name with one '/' between them
WellFormedIdentifier(str) ==
  \E i \in 2..(Len(str) - 1) :
    /\ str[i] = "/"
    /\ \A j \in DOMAIN str : j # i => str[j] # "/"

MalformedRepositoryIdentifier ==
  /\ Merged.repositories.key = "value"
  /\ \E i \in DOMAIN Merged.repositories.val :
       ~WellFormedIdentifier(Merged.repositories.val[i])

\* C21: when a required field is missing, the repository list is empty or a
\* repository identifier is malformed, main exits with code 1 without
\* starting the collector, so that no fetch is issued.
C21_ConfigurationErrorIsFatal ==
  (/\ mainPc # "start"
   /\ MissingRequiredField \/ EmptyRepositoryList
        \/ MalformedRepositoryIdentifier)
    => mainPc = "exit 1"

----------------------------------------------------------------------------
(* C22 *)

\* fetchPullRequests threw for a repository of this run
ListingFailed == "Error fetching PRs" \in errorLog

\* C22: a run in which the listing of a repository's pull requests failed
\* ends with a non-zero exit code, and a run in which nothing failed ends
\* with exit code 0, whether or not it collected a record.
C22_UnrecoveredListingFailureExitsNonZero ==
  /\ (RunEnded /\ ListingFailed) => exitCode # 0
  /\ (RunEnded /\ errorLog = {}) => exitCode = 0

----------------------------------------------------------------------------
(* C23 *)

\* C23: when the listing of a repository fails, nothing is added to the
\* aggregate for it and collectMetrics goes on with the next configured
\* repository, or returns the aggregate after the last one; the aggregate
\* only grows at its end, by records of the repository being processed, and
\* the repositories are taken in configuration order.
C23_RepositoryIsolation ==
  [][ /\ (runPc = "repository" /\ lastOutcome' = "listing failed") =>
           /\ allMetrics' = allMetrics
           /\ repoIdx' = repoIdx + 1
           /\ runPc' = IF repoIdx < Len(repositories) THEN "repository"
                                                      ELSE "output"
      /\ runPc \in {"repository", "pull requests"} =>
           /\ IsPrefix(allMetrics, allMetrics')
           /\ \A i \in (Len(allMetrics) + 1)..Len(allMetrics') :
                allMetrics'[i].repository = repositories[repoIdx]
           /\ repoIdx' \in {repoIdx, repoIdx + 1}
           /\ runPc' = "output" <=> repoIdx' > Len(repositories)
    ]_vars

\* The listing of a/x failed, b/y was processed after it, and its record is
\* the aggregate of the completed run.
C23_Witness ==
  /\ repositories = <<RepoAX, RepoBY>>
  /\ ListingFailed
  /\ allMetrics = <<MetricOf(RepoBY, 1)>>
  /\ runPc = "completed"

----------------------------------------------------------------------------
(* C24 *)

\* the table creation or the insert raised in this run
WarehouseFailed ==
  \/ "Error creating table" \in errorLog
  \/ "Error uploading metrics to BigQuery table" \in errorLog

\* C24: once the table creation or the insert has raised, the failure has
\* been caught and logged by BigQueryClient.uploadMetrics, by
\* MetricsCollector.uploadMetrics and by run, run has thrown, and main exits
\* with a non-zero code.
C24_WarehouseFailurePropagates ==
  WarehouseFailed =>
    /\ "Error uploading metrics to BigQuery table" \in errorLog
    /\ "Error uploading metrics to BigQuery" \in errorLog
    /\ "Error running engineering metrics collection" \in errorLog
    /\ runPc = "failed"
    /\ exitCode # 0

\* The insert of a run that collected a record raised and the run failed.
C24_Witness ==
  /\ WarehouseFailed
  /\ warehouseCalls =
       <<"createTableIfNotExists", "checkExistingMetrics", "insert">>
  /\ Len(uploaded) > 0
  /\ runPc = "failed"

----------------------------------------------------------------------------
(* C25 *)

HasUnknownKind(ms) == \E i \in DOMAIN ms : ~KnownType(ms[i])

\* C25: a call whose batch holds a record of an unknown metric type never
\* gets to the insert and never ends normally: it fails, and the table is
\* left as it was.
C25_UnknownKindFailsTheBatch ==
  \A r \in Runs :
    HasUnknownKind(batch[r]) => upPc[r] \notin {"insert", "done"}

----------------------------------------------------------------------------
(* C26 *)

\* C26: every PR fetchPullRequests holds in its result, at any point of the
\* call and on return, was updated on or after since and targets the
\* requested branch.
C26_ReturnsOnlyMatchingPRs ==
  method = "fetchPullRequests" =>
    \A i \in DOMAIN fetched :
      /\ DateParse(fetched[i].updated_at) >= since
      /\ fetched[i].base_ref = targetBranch

\* A call that returned one PR of a listing that also holds a PR of another
\* branch and a PR updated before since.
C26_Witness ==
  /\ method = "fetchPullRequests"
  /\ fetchPc = "returned"
  /\ Len(fetched) = 1
  /\ \E i \in DOMAIN apiData : apiData[i].base_ref # targetBranch
  /\ \E i \in DOMAIN apiData : DateParse(apiData[i].updated_at) < since

----------------------------------------------------------------------------
(* C27 *)

\* a request of the call was answered with a page in this step
PageAnswered == fetchPc = "fetching" /\ fetchErr' = NoError

\* C27: when a request of fetchPRTimelineEvents is answered, the page asked
\* for is the one after the pages already appended, which are the start of
\* the timeline in order; the events of the page are appended in order; the
\* call returns exactly when the page holds fewer events than the page
\* size, and asks for the next page otherwise; what it returns is the whole
\* timeline, each event once.  The pages asked for never go beyond the one
\* after the end of the timeline, so the loop ends.
C27_TimelinePagination ==
  [][ (method = "fetchPRTimelineEvents" /\ PageAnswered) =>
        /\ (page - 1) * PerPage <= Len(apiData)
        /\ fetched = SubSeq(apiData, 1, (page - 1) * PerPage)
        /\ fetched' = fetched \o PageOf(apiData, page)
        /\ fetchPc' = "returned" <=> Len(PageOf(apiData, page)) < PerPage
        /\ fetchPc' # "returned" => (fetchPc' = "fetching" /\ page' = page + 1)
        /\ fetchPc' = "returned" => fetched' = apiData
    ]_vars

\* A timeline of more than one page: the call went through the pages and
\* returned every event.
C27_Witness ==
  /\ method = "fetchPRTimelineEvents"
  /\ fetchPc = "returned"
  /\ Len(apiData) >= 2 * PerPage - 1
  /\ page = 3
  /\ fetched = apiData

----------------------------------------------------------------------------
(* C28 *)

\* C28: every call of fetchPullRequests, fetchPRReviewEvents or
\* fetchPRTimelineEvents eventually returns or throws, whatever the API
\* answers.
C28_EveryCallEnds == <>(fetchPc \in {"returned", "thrown"})

----------------------------------------------------------------------------
(* C29 *)

\* the rows of a batch: one for each record, in order, with its PR number
\* and repository
IsRowsOfBatch(rows, ms) ==
  /\ Len(rows) = Len(ms)
  /\ \A i \in DOMAIN ms :
       /\ rows[i].pr_number = ms[i].prNumber
       /\ rows[i].repository = ms[i].repository

----------------------------------------------------------------------------
(* C30 *)

\* the table holds a row with the PR number of m for another repository
StoredForOtherRepository(m, tbl) ==
  \E j \in DOMAIN tbl :
    /\ tbl[j].pr_number = m.prNumber
    /\ tbl[j].repository # m.repository

HasRowOf(rows, m) ==
  \E k \in DOMAIN rows :
    rows[k].pr_number = m.prNumber /\ rows[k].repository = m.repository

\* C30: a batch can hold records of two repositories with the same PR
\* number.  When the existence check of a call is done, every record whose
\* PR number is not stored has a row among those to insert, two records
\* with the same number included, and no record whose PR number is stored
\* for another repository has one.
C30_DeduplicationByNumberAlone ==
  [][ \A r \in Runs :
        (upPc[r] = "check" /\ upPc'[r] # "check") =>
          \A i \in DOMAIN batch[r] :
            /\ (/\ ~HasUnknownKind(batch[r])
                /\ batch[r][i].prNumber \notin StoredNumbers(table)) =>
                 HasRowOf(pendingRows'[r], batch[r][i])
            /\ StoredForOtherRepository(batch[r][i], table) =>
                 ~HasRowOf(pendingRows'[r], batch[r][i])
    ]_vars

====
